---- MODULE Spec2Model ----
(***************************************************************************)
(* Mode resolution of the dynamo-run launcher                              *)
(* (launch/dynamo-run/src/opt.rs): the `in=` token is resolved to an       *)
(* Input, the `out=` token to an Output, both by TryFrom<&str>; Display    *)
(* renders a mode back to a string; Default picks a mode when no token is  *)
(* given; Output::available_engines lists the engines of the build.        *)
(*                                                                         *)
(* A Rust string is a sequence of one-character strings, so that           *)
(* starts_with, strip_prefix and format! are computed character by         *)
(* character.  The cargo features of the build are a set of feature names. *)
(***************************************************************************)
EXTENDS Naturals, Sequences, FiniteSets

\* ------------------------------------------------------------------------
\* String literals of opt.rs
\* ------------------------------------------------------------------------
S_http == <<"h", "t", "t", "p">>
S_text == <<"t", "e", "x", "t">>
S_stdin == <<"s", "t", "d", "i", "n">>
S_mistralrs == <<"m", "i", "s", "t", "r", "a", "l", "r", "s">>
S_llamacpp == <<"l", "l", "a", "m", "a", "c", "p", "p">>
S_llama_cpp == <<"l", "l", "a", "m", "a", "_", "c", "p", "p">>
S_sglang == <<"s", "g", "l", "a", "n", "g">>
S_vllm == <<"v", "l", "l", "m">>
S_echo_full == <<"e", "c", "h", "o", "_", "f", "u", "l", "l">>
S_echo_core == <<"e", "c", "h", "o", "_", "c", "o", "r", "e">>
S_pystr == <<"p", "y", "s", "t", "r">>
S_file_py == <<"f", "i", "l", "e", ".", "p", "y">>
InvalidInPrefix == <<"I", "n", "v", "a", "l", "i", "d", " ", "i", "n", "=", " ", "o", "p", "t", "i", "o", "n", " ", "'">>
InvalidOutPrefix == <<"I", "n", "v", "a", "l", "i", "d", " ", "o", "u", "t", "=", " ", "o", "p", "t", "i", "o", "n", " ", "'">>
Quote == <<"'">>

\* const BATCH_PREFIX: &str = "batch:";
BATCH_PREFIX == <<"b", "a", "t", "c", "h", ":">>

\* dynamo_runtime::protocols::ENDPOINT_SCHEME, imported by opt.rs; its value
\* lives in the runtime crate ("dyn://ns.comp.ep" is the documented address form).
ENDPOINT_SCHEME == <<"d", "y", "n", ":", "/", "/">>

\* crate::PYTHON_STR_SCHEME, defined in the crate root outside opt.rs.
PYTHON_STR_SCHEME == <<"p", "y", "s", "t", "r", ":">>

\* The cargo features that gate variants and match arms.
Features == {"mistralrs", "llamacpp", "python"}

\* ------------------------------------------------------------------------
\* str helpers
\* ------------------------------------------------------------------------
\* str::starts_with
starts_with(t, p) ==
    /\ Len(p) <= Len(t)
    /\ SubSeq(t, 1, Len(p)) = p

\* str::strip_prefix(..).unwrap(), called only under starts_with
strip_prefix(t, p) == SubSeq(t, Len(p) + 1, Len(t))

\* ------------------------------------------------------------------------
\* Values
\* ------------------------------------------------------------------------
\* An enum value: the variant and its payload (the empty string for a
\* variant without payload).  PathBuf::from keeps the string as it is and
\* Path::display gives it back, so a PathBuf payload is the string.
Mode(tag, payload) == [tag |-> tag, payload |-> payload]

NoMode == Mode("-", <<>>)

\* anyhow::Result<Self>: Ok(mode) or Err(message); Unset before any call.
Ok(m) == [st |-> "ok", val |-> m, err |-> <<>>]

Err(msg) == [st |-> "err", val |-> NoMode, err |-> msg]

Unset == [st |-> "unset", val |-> NoMode, err |-> <<>>]

\* A rendered string, or nothing rendered yet.
Rendered(str) == [set |-> TRUE, str |-> str]

NotRendered == [set |-> FALSE, str |-> <<>>]

\* ------------------------------------------------------------------------
\* Input
\* ------------------------------------------------------------------------
\* The arms of `match s` in Input::try_from, in source order; arm 6 is the
\* catch-all `e => Err(..)`.
InputArms == 1..6

\* Faulty variant: the endpoint guard tests contains instead of starts_with.
InputArmMatches_Contains(i, t) ==
    CASE i = 1 -> t = S_http
      [] i = 2 -> t = S_text
      [] i = 3 -> t = S_stdin
      [] i = 4 -> \E k \in 0..Len(t) :
                     starts_with(SubSeq(t, k + 1, Len(t)), ENDPOINT_SCHEME)
      [] i = 5 -> starts_with(t, BATCH_PREFIX)
      [] OTHER -> TRUE

InputArmMatches(i, t) ==
    CASE i = 1 -> t = S_http
      [] i = 2 -> t = S_text
      [] i = 3 -> t = S_stdin
      [] i = 4 -> starts_with(t, ENDPOINT_SCHEME)
      [] i = 5 -> starts_with(t, BATCH_PREFIX)
      [] OTHER -> TRUE

\* Faulty variant: the catch-all arm falls back to Stdin instead of failing.
InputArmResult_SilentDefault(i, t) ==
    CASE i = 1 -> Ok(Mode("Http", <<>>))
      [] i = 2 -> Ok(Mode("Text", <<>>))
      [] i = 3 -> Ok(Mode("Stdin", <<>>))
      [] i = 4 -> Ok(Mode("Endpoint", t))
      [] i = 5 -> Ok(Mode("Batch", strip_prefix(t, BATCH_PREFIX)))
      [] OTHER -> Ok(Mode("Stdin", <<>>))

InputArmResult(i, t) ==
    CASE i = 1 -> Ok(Mode("Http", <<>>))
      [] i = 2 -> Ok(Mode("Text", <<>>))
      [] i = 3 -> Ok(Mode("Stdin", <<>>))
      [] i = 4 -> Ok(Mode("Endpoint", t))
      [] i = 5 -> Ok(Mode("Batch", strip_prefix(t, BATCH_PREFIX)))
      [] OTHER -> Err(InvalidInPrefix \o t \o Quote)

\* A match takes the first arm, in source order, whose pattern and guard hold.
FirstArm(matching) == CHOOSE i \in matching : \A j \in matching : i <= j

Input_try_from(t) ==
    InputArmResult(FirstArm({i \in InputArms : InputArmMatches(i, t)}), t)

\* Faulty variant: the literals of Text and Stdin are exchanged.
Input_fmt_TextStdinSwapped(m) ==
    CASE m.tag = "Http" -> S_http
      [] m.tag = "Text" -> S_stdin
      [] m.tag = "Stdin" -> S_text
      [] m.tag = "Endpoint" -> m.payload
      [] m.tag = "Batch" -> m.payload

Input_fmt(m) ==
    CASE m.tag = "Http" -> S_http
      [] m.tag = "Text" -> S_text
      [] m.tag = "Stdin" -> S_stdin
      [] m.tag = "Endpoint" -> m.payload
      [] m.tag = "Batch" -> m.payload

\* Faulty variant: the terminal test is inverted.
Input_default_Inverted(is_terminal) ==
    IF is_terminal THEN Mode("Stdin", <<>>) ELSE Mode("Text", <<>>)

Input_default(is_terminal) ==
    IF is_terminal THEN Mode("Text", <<>>) ELSE Mode("Stdin", <<>>)

\* ------------------------------------------------------------------------
\* Output
\* ------------------------------------------------------------------------
\* The arms of `match s` in Output::try_from, in source order; arm 9 is the
\* catch-all.  An arm under #[cfg(feature = ..)] exists only in a build with
\* that feature.
OutputArms == 1..9

\* Faulty variant: the llamacpp arm is not under its feature.
OutputArmMatches_LlamaUngated(i, t, f) ==
    CASE i = 1 -> "mistralrs" \in f /\ t = S_mistralrs
      [] i = 2 -> t = S_llamacpp \/ t = S_llama_cpp
      [] i = 3 -> t = S_sglang
      [] i = 4 -> t = S_vllm
      [] i = 5 -> t = S_echo_full
      [] i = 6 -> t = S_echo_core
      [] i = 7 -> starts_with(t, ENDPOINT_SCHEME)
      [] i = 8 -> "python" \in f /\ starts_with(t, PYTHON_STR_SCHEME)
      [] OTHER -> TRUE

OutputArmMatches(i, t, f) ==
    CASE i = 1 -> "mistralrs" \in f /\ t = S_mistralrs
      [] i = 2 -> "llamacpp" \in f /\ (t = S_llamacpp \/ t = S_llama_cpp)
      [] i = 3 -> t = S_sglang
      [] i = 4 -> t = S_vllm
      [] i = 5 -> t = S_echo_full
      [] i = 6 -> t = S_echo_core
      [] i = 7 -> starts_with(t, ENDPOINT_SCHEME)
      [] i = 8 -> "python" \in f /\ starts_with(t, PYTHON_STR_SCHEME)
      [] OTHER -> TRUE

\* Faulty variant: the endpoint arm keeps the scheme, as Input does.
OutputArmResult_SchemeKept(i, t) ==
    CASE i = 1 -> Ok(Mode("MistralRs", <<>>))
      [] i = 2 -> Ok(Mode("LlamaCpp", <<>>))
      [] i = 3 -> Ok(Mode("SgLang", <<>>))
      [] i = 4 -> Ok(Mode("Vllm", <<>>))
      [] i = 5 -> Ok(Mode("EchoFull", <<>>))
      [] i = 6 -> Ok(Mode("EchoCore", <<>>))
      [] i = 7 -> Ok(Mode("Endpoint", t))
      [] i = 8 -> Ok(Mode("PythonStr", strip_prefix(t, PYTHON_STR_SCHEME)))
      [] OTHER -> Err(InvalidOutPrefix \o t \o Quote)

OutputArmResult(i, t) ==
    CASE i = 1 -> Ok(Mode("MistralRs", <<>>))
      [] i = 2 -> Ok(Mode("LlamaCpp", <<>>))
      [] i = 3 -> Ok(Mode("SgLang", <<>>))
      [] i = 4 -> Ok(Mode("Vllm", <<>>))
      [] i = 5 -> Ok(Mode("EchoFull", <<>>))
      [] i = 6 -> Ok(Mode("EchoCore", <<>>))
      [] i = 7 -> Ok(Mode("Endpoint", strip_prefix(t, ENDPOINT_SCHEME)))
      [] i = 8 -> Ok(Mode("PythonStr", strip_prefix(t, PYTHON_STR_SCHEME)))
      [] OTHER -> Err(InvalidOutPrefix \o t \o Quote)

Output_try_from(t, f) ==
    OutputArmResult(FirstArm({i \in OutputArms : OutputArmMatches(i, t, f)}), t)

\* Faulty variant: the literals of the two echo modes are exchanged.
Output_fmt_EchoSwapped(m) ==
    CASE m.tag = "MistralRs" -> S_mistralrs
      [] m.tag = "LlamaCpp" -> S_llamacpp
      [] m.tag = "SgLang" -> S_sglang
      [] m.tag = "Vllm" -> S_vllm
      [] m.tag = "EchoFull" -> S_echo_core
      [] m.tag = "EchoCore" -> S_echo_full
      [] m.tag = "Endpoint" -> m.payload
      [] m.tag = "PythonStr" -> S_pystr

Output_fmt(m) ==
    CASE m.tag = "MistralRs" -> S_mistralrs
      [] m.tag = "LlamaCpp" -> S_llamacpp
      [] m.tag = "SgLang" -> S_sglang
      [] m.tag = "Vllm" -> S_vllm
      [] m.tag = "EchoFull" -> S_echo_full
      [] m.tag = "EchoCore" -> S_echo_core
      [] m.tag = "Endpoint" -> m.payload
      [] m.tag = "PythonStr" -> S_pystr

Output_default(f) ==
    IF "mistralrs" \in f THEN Mode("MistralRs", <<>>) ELSE Mode("Vllm", <<>>)

\* Faulty variant: sglang was not added to the list.
available_engines_NoSgLang(f) ==
    <<S_echo_core, S_echo_full>>
    \o (IF "mistralrs" \in f THEN <<S_mistralrs>> ELSE <<>>)
    \o (IF "llamacpp" \in f THEN <<S_llamacpp>> ELSE <<>>)
    \o <<S_vllm>>
    \o (IF "python" \in f THEN <<S_pystr>> ELSE <<>>)

\* Faulty variant: mistralrs is listed whatever the features.
available_engines_MistralUngated(f) ==
    <<S_echo_core, S_echo_full>>
    \o <<S_mistralrs>>
    \o (IF "llamacpp" \in f THEN <<S_llamacpp>> ELSE <<>>)
    \o <<S_sglang, S_vllm>>
    \o (IF "python" \in f THEN <<S_pystr>> ELSE <<>>)

available_engines(f) ==
    <<S_echo_core, S_echo_full>>
    \o (IF "mistralrs" \in f THEN <<Output_fmt(Mode("MistralRs", <<>>))>> ELSE <<>>)
    \o (IF "llamacpp" \in f THEN <<Output_fmt(Mode("LlamaCpp", <<>>))>> ELSE <<>>)
    \o <<Output_fmt(Mode("SgLang", <<>>)), Output_fmt(Mode("Vllm", <<>>))>>
    \o (IF "python" \in f THEN <<Output_fmt(Mode("PythonStr", S_file_py))>> ELSE <<>>)

\* ------------------------------------------------------------------------
\* The tokens the launcher may be given
\* ------------------------------------------------------------------------
MaxSuffixLen == 2

Alphabet == {"x", "/"}

RECURSIVE StringsUpTo(_)
StringsUpTo(n) ==
    IF n = 0 THEN {<<>>}
    ELSE LET shorter == StringsUpTo(n - 1)
         IN  shorter \cup {w \o <<c>> : w \in shorter, c \in Alphabet}

\* Every literal and prefix of the two grammars, near misses of them (a
\* capital, a missing last character) and one prefix followed by another.
TokenBases ==
    { <<>>, S_http, S_text, S_stdin,
      S_mistralrs, S_llamacpp, S_llama_cpp, S_sglang, S_vllm,
      S_echo_full, S_echo_core, S_pystr,
      ENDPOINT_SCHEME, BATCH_PREFIX, PYTHON_STR_SCHEME,
      <<"H", "t", "t", "p">>, <<"b", "o", "g", "u", "s">>,
      <<"d", "y", "n", ":", "/">>, <<"d", "y", "n", ":">>,
      <<"b", "a", "t", "c", "h">>,
      ENDPOINT_SCHEME \o BATCH_PREFIX, BATCH_PREFIX \o ENDPOINT_SCHEME,
      ENDPOINT_SCHEME \o PYTHON_STR_SCHEME, PYTHON_STR_SCHEME \o ENDPOINT_SCHEME,
      PYTHON_STR_SCHEME \o S_file_py, ENDPOINT_SCHEME \o S_vllm }

Tokens == {b \o w : b \in TokenBases, w \in StringsUpTo(MaxSuffixLen)}

\* ------------------------------------------------------------------------
\* State
\* ------------------------------------------------------------------------
VARIABLES
    features,           \* the cargo features of this build
    stdin_is_terminal,  \* std::io::stdin().is_terminal()
    s,                  \* the token given to try_from
    input,              \* the Input in use: result of try_from, or Ok(default)
    input_from,         \* "none", "try_from" or "default"
    input_str,          \* Display of input
    output,             \* the Output in use
    output_from,
    output_str,         \* Display of output
    engines             \* result of Output::available_engines()

vars == <<features, stdin_is_terminal, s, input, input_from, input_str,
          output, output_from, output_str, engines>>

NoEngines == [set |-> FALSE, list |-> <<>>]

Init ==
    /\ features \in SUBSET Features
    /\ stdin_is_terminal \in BOOLEAN
    /\ s \in Tokens
    /\ input = Unset
    /\ input_from = "none"
    /\ input_str = NotRendered
    /\ output = Unset
    /\ output_from = "none"
    /\ output_str = NotRendered
    /\ engines = NoEngines

InputTryFrom ==
    /\ input_from = "none"
    /\ input' = Input_try_from(s)
    /\ input_from' = "try_from"
    /\ UNCHANGED <<features, stdin_is_terminal, s, input_str,
                   output, output_from, output_str, engines>>

InputDefault ==
    /\ input_from = "none"
    /\ input' = Ok(Input_default(stdin_is_terminal))
    /\ input_from' = "default"
    /\ UNCHANGED <<features, stdin_is_terminal, s, input_str,
                   output, output_from, output_str, engines>>

InputDisplay ==
    /\ input.st = "ok"
    /\ ~input_str.set
    /\ input_str' = Rendered(Input_fmt(input.val))
    /\ UNCHANGED <<features, stdin_is_terminal, s, input, input_from,
                   output, output_from, output_str, engines>>

OutputTryFrom ==
    /\ output_from = "none"
    /\ output' = Output_try_from(s, features)
    /\ output_from' = "try_from"
    /\ UNCHANGED <<features, stdin_is_terminal, s, input, input_from, input_str,
                   output_str, engines>>

OutputDefault ==
    /\ output_from = "none"
    /\ output' = Ok(Output_default(features))
    /\ output_from' = "default"
    /\ UNCHANGED <<features, stdin_is_terminal, s, input, input_from, input_str,
                   output_str, engines>>

OutputDisplay ==
    /\ output.st = "ok"
    /\ ~output_str.set
    /\ output_str' = Rendered(Output_fmt(output.val))
    /\ UNCHANGED <<features, stdin_is_terminal, s, input, input_from, input_str,
                   output, output_from, engines>>

AvailableEngines ==
    /\ ~engines.set
    /\ engines' = [set |-> TRUE, list |-> available_engines(features)]
    /\ UNCHANGED <<features, stdin_is_terminal, s, input, input_from, input_str,
                   output, output_from, output_str>>

Next ==
    \/ InputTryFrom
    \/ InputDefault
    \/ InputDisplay
    \/ OutputTryFrom
    \/ OutputDefault
    \/ OutputDisplay
    \/ AvailableEngines

Spec == Init /\ [][Next]_vars

\* ------------------------------------------------------------------------
\* Properties
\* ------------------------------------------------------------------------
InputTags == {"Http", "Stdin", "Text", "Endpoint", "Batch"}

\* The Output variants without payload (echo modes and named backends).
PayloadFreeSink == {"MistralRs", "LlamaCpp", "SgLang", "Vllm", "EchoFull", "EchoCore"}

OutputTags == PayloadFreeSink \cup {"Endpoint", "PythonStr"}

Count(x, list) == Cardinality({i \in DOMAIN list : list[i] = x})

InputParsed == input_from = "try_from"

OutputParsed == output_from = "try_from"

\* The sink token was accepted as an echo mode or a named backend.
SinkLiteralAccepted ==
    /\ OutputParsed
    /\ output.st = "ok"
    /\ output.val.tag \in PayloadFreeSink

\* C1 as stated: every literal token that Output::try_from accepts as an
\* echo mode or an enabled named backend is rendered back to itself.
C1_RoundTripEveryLiteral ==
    (SinkLiteralAccepted /\ output_str.set) => output_str.str = s

\* C1 amended: every accepted echo or named-backend literal other than the
\* alias "llama_cpp" is rendered back to itself; the alias "llama_cpp" is
\* rendered as the canonical "llamacpp".
C1_RoundTripCanonical ==
    (SinkLiteralAccepted /\ output_str.set) =>
        /\ s # S_llama_cpp => output_str.str = s
        /\ s = S_llama_cpp => output_str.str = S_llamacpp

C1_Witness ==
    /\ SinkLiteralAccepted
    /\ output_str.set
    /\ s = S_llamacpp
    /\ output_str.str = S_llamacpp

\* C2 as stated: the address payload of an Endpoint produced by
\* Input::try_from or Output::try_from is never the empty string.
C2_EndpointPayloadNonEmpty ==
    /\ (InputParsed /\ input.st = "ok" /\ input.val.tag = "Endpoint")
          => input.val.payload # <<>>
    /\ (OutputParsed /\ output.st = "ok" /\ output.val.tag = "Endpoint")
          => output.val.payload # <<>>

\* The documented grammar of the source token.
InSourceGrammar(t) ==
    \/ t \in {S_http, S_text, S_stdin}
    \/ starts_with(t, ENDPOINT_SCHEME)
    \/ starts_with(t, BATCH_PREFIX)

\* The documented grammar of the sink token in a build with features f.
InSinkGrammar(t, f) ==
    \/ t \in {S_sglang, S_vllm, S_echo_full, S_echo_core}
    \/ "mistralrs" \in f /\ t = S_mistralrs
    \/ "llamacpp" \in f /\ t \in {S_llamacpp, S_llama_cpp}
    \/ starts_with(t, ENDPOINT_SCHEME)
    \/ "python" \in f /\ starts_with(t, PYTHON_STR_SCHEME)

\* The message is the fixed text, then the token verbatim, then a quote.
CarriesToken(msg, fixed, t) ==
    /\ Len(msg) = Len(fixed) + Len(t) + 1
    /\ SubSeq(msg, 1, Len(fixed)) = fixed
    /\ SubSeq(msg, Len(fixed) + 1, Len(fixed) + Len(t)) = t

\* C3: try_from always returns; a token of the documented grammar yields a
\* mode, and any other token yields the selector's own error, whose message
\* carries the token verbatim; no token outside the grammar yields a mode.
C3_ParseTotalNoSilentDefault ==
    /\ InputParsed =>
          IF InSourceGrammar(s)
          THEN input.st = "ok" /\ input.val.tag \in InputTags
          ELSE /\ input.st = "err"
               /\ input.val = NoMode
               /\ CarriesToken(input.err, InvalidInPrefix, s)
    /\ OutputParsed =>
          IF InSinkGrammar(s, features)
          THEN output.st = "ok" /\ output.val.tag \in OutputTags
          ELSE /\ output.st = "err"
               /\ output.val = NoMode
               /\ CarriesToken(output.err, InvalidOutPrefix, s)

C3_Witness ==
    /\ InputParsed
    /\ OutputParsed
    /\ s = <<"b", "o", "g", "u", "s">>
    /\ input.st = "err"
    /\ output.st = "err"

\* C4 as stated: every literal token accepted for a variant without payload
\* appears in available_engines() exactly once.
C4_EveryAcceptedLiteralListedOnce ==
    (SinkLiteralAccepted /\ engines.set) => Count(s, engines.list) = 1

\* C4 amended: every literal token accepted for a variant without payload,
\* other than the alias "llama_cpp", appears in available_engines() exactly
\* once; the alias is not listed, and the canonical "llamacpp" it resolves
\* to appears exactly once.
C4_CanonicalLiteralListedOnce ==
    (SinkLiteralAccepted /\ engines.set) =>
        /\ s # S_llama_cpp => Count(s, engines.list) = 1
        /\ s = S_llama_cpp =>
              /\ Count(s, engines.list) = 0
              /\ Count(S_llamacpp, engines.list) = 1

C4_Witness ==
    /\ SinkLiteralAccepted
    /\ engines.set
    /\ s = S_sglang
    /\ features = Features

\* The entry available_engines() makes from PythonStr("file.py").
IsPlaceholder(i) == "python" \in features /\ i = Len(engines.list)

\* C5: available_engines() has no duplicate entries, and every entry other
\* than the scripted-backend placeholder is accepted by Output::try_from
\* and rendered back to itself.
C5_EnginesDistinctAndRoundTrip ==
    engines.set =>
        /\ \A i, j \in DOMAIN engines.list :
              engines.list[i] = engines.list[j] => i = j
        /\ \A i \in DOMAIN engines.list :
              (~IsPlaceholder(i) /\ engines.list[i] = s /\ OutputParsed) =>
                  /\ output.st = "ok"
                  /\ output_str.set => output_str.str = s

C5_Witness ==
    /\ engines.set
    /\ OutputParsed
    /\ output_str.set
    /\ s = S_mistralrs
    /\ Count(s, engines.list) = 1

Listed(x) == Count(x, engines.list) > 0

AcceptedAs(tag) == output.st = "ok" /\ output.val.tag = tag

RejectedInvalidSink ==
    output.st = "err" /\ CarriesToken(output.err, InvalidOutPrefix, s)

\* C6: for each of the features mistralrs, llamacpp and python, a build
\* without it rejects the backend's literal (or scheme-prefixed token) with
\* the invalid-sink error and does not list the backend, and a build with
\* it accepts the token and lists the backend.
C6_FeatureGatesParseAndEngines ==
    /\ (OutputParsed /\ s = S_mistralrs) =>
          IF "mistralrs" \in features
          THEN AcceptedAs("MistralRs") ELSE RejectedInvalidSink
    /\ (OutputParsed /\ s \in {S_llamacpp, S_llama_cpp}) =>
          IF "llamacpp" \in features
          THEN AcceptedAs("LlamaCpp") ELSE RejectedInvalidSink
    /\ (OutputParsed /\ starts_with(s, PYTHON_STR_SCHEME)) =>
          IF "python" \in features
          THEN AcceptedAs("PythonStr") ELSE RejectedInvalidSink
    /\ engines.set =>
          /\ Listed(S_mistralrs) <=> "mistralrs" \in features
          /\ Listed(S_llamacpp) <=> "llamacpp" \in features
          /\ Listed(S_pystr) <=> "python" \in features

C6_Witness ==
    /\ OutputParsed
    /\ engines.set
    /\ features = {"mistralrs"}
    /\ s = S_llamacpp
    /\ output.st = "err"

\* C7: for a token that starts with the endpoint scheme, Input::try_from
\* gives Endpoint(token), the scheme kept, and Output::try_from gives
\* Endpoint(r) with r the token less exactly its leading scheme; the source
\* payload is the scheme followed by the sink payload.
C7_SchemeKeptBySourceStrippedBySink ==
    starts_with(s, ENDPOINT_SCHEME) =>
        /\ InputParsed => input = Ok(Mode("Endpoint", s))
        /\ OutputParsed =>
              /\ AcceptedAs("Endpoint")
              /\ ENDPOINT_SCHEME \o output.val.payload = s
        /\ (InputParsed /\ OutputParsed) =>
              input.val.payload = ENDPOINT_SCHEME \o output.val.payload

C7_Witness ==
    /\ InputParsed
    /\ OutputParsed
    /\ s = ENDPOINT_SCHEME \o S_vllm
    /\ output.val.payload = S_vllm

\* C8: a source token that parses to a variant without payload ("http",
\* "text", "stdin") is rendered back to itself.
C8_SourceLiteralRoundTrip ==
    /\ (InputParsed /\ s \in {S_http, S_text, S_stdin}) =>
          input.st = "ok" /\ input.val.tag \in {"Http", "Text", "Stdin"}
    /\ (InputParsed /\ input.st = "ok" /\ input_str.set
           /\ input.val.tag \in {"Http", "Text", "Stdin"}) =>
          input_str.str = s

C8_Witness ==
    /\ InputParsed
    /\ input_str.set
    /\ s = S_stdin
    /\ input.val.tag = "Stdin"

\* C9: Input::default() is Text when standard input is a terminal and Stdin
\* otherwise; it is never Http, Endpoint or Batch.
C9_DefaultFollowsTerminal ==
    input_from = "default" =>
        /\ input.st = "ok"
        /\ stdin_is_terminal => input.val = Mode("Text", <<>>)
        /\ ~stdin_is_terminal => input.val = Mode("Stdin", <<>>)
        /\ input.val.tag \notin {"Http", "Endpoint", "Batch"}

C9_Witness ==
    /\ input_from = "default"
    /\ ~stdin_is_terminal
    /\ input.val.tag = "Stdin"

\* C10: in each selector and every build, no token satisfies the condition
\* of two arms other than the catch-all, so the result of try_from is the
\* result of whichever arm matches, whatever the order of the arms.
C10_ArmsPairwiseDisjoint ==
    /\ InputParsed =>
          /\ Cardinality({i \in 1..5 : InputArmMatches(i, s)}) <= 1
          /\ \A i \in 1..5 :
                InputArmMatches(i, s) => input = InputArmResult(i, s)
    /\ OutputParsed =>
          /\ Cardinality({i \in 1..8 : OutputArmMatches(i, s, features)}) <= 1
          /\ \A i \in 1..8 :
                OutputArmMatches(i, s, features) => output = OutputArmResult(i, s)

C10_Witness ==
    /\ InputParsed
    /\ OutputParsed
    /\ s = BATCH_PREFIX \o ENDPOINT_SCHEME
    /\ input.val.tag = "Batch"
    /\ output.st = "err"

====
